---- MODULE Spec2Model ----
(***************************************************************************)
(* Workflow lifecycle engine of the AI-Employee vault: the HITL approval   *)
(* gate of the Odoo / Facebook / Twitter tool servers, the dedup contract  *)
(* of the watchers, the orchestrator's scheduled watcher ticks and the     *)
(* Error_Queue retry cycle of the error-recovery server.                   *)
(*                                                                         *)
(* The vault directories are functions from file names to file contents.   *)
(* A file name is a record [prefix, kind, id, ts]: the text the code       *)
(* formats as <prefix><KIND>_<id>_<ts>.md, ts being the UTC clock at one   *)
(* second resolution (strftime "%Y%m%d_%H%M%S").                           *)
(***************************************************************************)
EXTENDS Integers, Sequences, FiniteSets, TLC

VARIABLES
    now,              \* UTC wall clock, in whole seconds
    log,              \* Logs/<day>.json: the audit records, in file order
    pendingApproval,  \* Pending_Approval/: name -> approval request
    outbound,         \* requests sent to Odoo / Graph API / Twitter (history)
    gateRes,          \* what the last tool call of an API server returned
    errorQueue,       \* Error_Queue/: name -> text (sequence of lines)
    needsAction,      \* Needs_Action/: name -> text
    done,             \* Done/: name -> text
    recRes,           \* what the last error-recovery tool call returned
    retryCalls,       \* history: retry_failed_action calls per item queued in this run
    backoff,          \* the running or last _retry_with_backoff call
    seenComments,     \* FacebookWatcher._seen_comment_ids of the running instance
    seenMentions,     \* FacebookWatcher._seen_mention_ids
    seenTweets,       \* TwitterWatcher._seen_mention_ids
    seenInvoices,     \* OdooWatcher._seen_invoice_ids
    lastPaymentCheck, \* OdooWatcher._last_payment_check (a day)
    today,            \* local calendar day
    watcher,          \* the watcher this process runs (watcher module run as __main__)
    outage,           \* the upstream calls that fail while this watcher runs
    watchRes,         \* what the last check_for_updates call returned
    emitted,          \* history: identifier -> the scheduled ticks that persisted it
    inFlight,         \* scheduler: job id -> executions of the job that have not returned
    lastEvent,        \* history: what the scheduler's last tick or job end came to
    fsThread,         \* the WatcherThread of the filesystem watcher: alive, crashed, returned
    fsAlive,          \* the WatcherThread instances started whose run() has not ended
    scheduler,        \* the BackgroundScheduler: running, stopped
    mainThread        \* main of the orchestrator: loop, interrupted, exited

gateVars  == <<pendingApproval, outbound, gateRes>>
recVars   == <<errorQueue, done, recRes, retryCalls, backoff>>
watchVars == <<seenComments, seenMentions, seenTweets, seenInvoices,
               lastPaymentCheck, today, watcher, outage, watchRes>>
schedVars == <<inFlight, lastEvent, fsThread, fsAlive, scheduler, mainThread>>
vars == <<now, log, pendingApproval, outbound, gateRes, errorQueue, needsAction,
          done, recRes, retryCalls, backoff, seenComments, seenMentions, seenTweets,
          seenInvoices, lastPaymentCheck, today, watcher, outage, watchRes, emitted,
          inFlight, lastEvent, fsThread, fsAlive, scheduler, mainThread>>

----------------------------------------------------------------------------
(* Bounds of the model *)

\* the clock runs over 0..MaxTime seconds
MaxTime == 1
\* at most MaxLog audit records are written in one run
MaxLog == 2
\* invoice ids, post texts and tweet texts are drawn from 1..MaxPayload
MaxPayload == 2
\* at most MaxCalls operations (tool calls of the error-recovery server, scans
\* of the orchestrator) work on Error_Queue in one run
MaxCalls == 3
\* external identifiers (comments, mentions, tweets, invoices, payments) are 1..MaxId
MaxId == 2
\* one check fetches at most MaxWindow entries from its upstream source
MaxWindow == 2
\* at most MaxChecks checks (calls of check_for_updates, scheduled ticks) in one run
MaxChecks == 2

(* Program constants *)

HITL_THRESHOLD == 100
MAX_RETRIES == 3
LOW_BALANCE_THRESHOLD == 1000

----------------------------------------------------------------------------
(* Files *)

FileName(prefix, kind, id, ts) == [prefix |-> prefix, kind |-> kind, id |-> id, ts |-> ts]
NoFile == FileName("", "", 0, 0)

\* Path.write_text: creates the file or replaces its content
WriteText(dir, name, content) ==
    [n \in DOMAIN dir \cup {name} |-> IF n = name THEN content ELSE dir[n]]

\* the directory without the file
Remove(dir, name) == [n \in DOMAIN dir \ {name} |-> dir[n]]

EmptyDir == [n \in {} |-> <<>>]

(* Audit log *)

LogEntry(actor, action_type, result) ==
    [actor |-> actor, action_type |-> action_type, result |-> result]

\* _log: open(log_file, "a") and write one line
AppendLogTruncating(l, actor, action_type, result) ==
    <<LogEntry(actor, action_type, result)>>
AppendLogTwice(l, actor, action_type, result) ==
    Append(Append(l, LogEntry(actor, action_type, result)),
           LogEntry(actor, action_type, result))
AppendLog(l, actor, action_type, result) ==
    Append(l, LogEntry(actor, action_type, result))

(* Scheduled jobs *)

\* the ids of the jobs main adds to the scheduler
Jobs == {"gmail_watcher", "linkedin_poster", "dashboard_update", "odoo_watcher",
         "facebook_watcher", "twitter_watcher", "error_recovery", "ceo_briefing"}

Tick ==
    /\ now < MaxTime
    /\ now' = now + 1
    /\ UNCHANGED <<log, needsAction, emitted>>
    /\ UNCHANGED gateVars
    /\ UNCHANGED recVars
    /\ UNCHANGED watchVars
    /\ UNCHANGED schedVars

----------------------------------------------------------------------------
(* HITL gate: mcp_servers/odoo_api, facebook_api, twitter_api *)

\* payment amounts around the threshold, in dollars
Amounts == {HITL_THRESHOLD - 1, HITL_THRESHOLD, HITL_THRESHOLD + 1}
Payloads == 1..MaxPayload

Approval(type, data) == [type |-> type, status |-> "pending", data |-> data]
Request(target, amount) == [target |-> target, amount |-> amount]

\* one request sent to an external system; amount is the amount of the tool
\* call that sent it (0 where the call has none)
Outbound(service, op, write, target, amount) ==
    [service |-> service, op |-> op, write |-> write, target |-> target, amount |-> amount]

\* the result of a tool call, with the argument it was called with (arg), the
\* branch it ran (path) and the approval file it names (file)
GateResult(op, arg, path, success, status, file) ==
    [op |-> op, arg |-> arg, path |-> path, success |-> success, status |-> status,
     file |-> file]

\* the effect of one tool call: the new Pending_Approval, the requests sent,
\* the new audit log and the result handed back to call_tool
Effect(pa, out, lg, res) == [pa |-> pa, out |-> out, lg |-> lg, res |-> res]

\* record_payment's policy predicate
GatedWrong(amount) == amount >= HITL_THRESHOLD
GatedAlways(amount) == TRUE
Gated(amount) == amount > HITL_THRESHOLD

odoo_hitl_name(action_type, ts) == FileName("", "ODOO_" \o action_type, 0, ts)
facebook_hitl_name(ts) == FileName("", "FACEBOOK_POST", 0, ts)
twitter_hitl_name(ts) == FileName("", "TWITTER_TWEET", 0, ts)

odoo_create_hitl_clearing(action_type, data) ==
    WriteText(EmptyDir, odoo_hitl_name(action_type, now), Approval("odoo_approval", data))
odoo_create_hitl(action_type, data) ==
    WriteText(pendingApproval, odoo_hitl_name(action_type, now), Approval("odoo_approval", data))
facebook_create_hitl(content) ==
    WriteText(pendingApproval, facebook_hitl_name(now),
              Approval("facebook_post_approval", Request(content, 0)))
twitter_create_hitl(tweet_text) ==
    WriteText(pendingApproval, twitter_hitl_name(now),
              Approval("twitter_post_approval", Request(tweet_text, 0)))

\* record_payment(invoice_id, amount): write_ok is whether write_text of the
\* approval file succeeds, rpc how the two Odoo calls of the direct path end
record_payment(invoice_id, amount, write_ok, rpc) ==
    IF Gated(amount)
    THEN IF write_ok
         THEN Effect(odoo_create_hitl("PAYMENT", Request(invoice_id, amount)),
                     outbound,
                     AppendLog(log, "OdooAPIServer", "record_payment", "pending_approval"),
                     GateResult("record_payment", Request(invoice_id, amount), "approval", TRUE, "pending_approval",
                                odoo_hitl_name("PAYMENT", now)))
         \* write_text raises: nothing catches it, no log line, no result
         ELSE Effect(pendingApproval, outbound, log,
                     GateResult("record_payment", Request(invoice_id, amount), "approval", FALSE, "raised", NoFile))
    ELSE LET read == Outbound("odoo", "account.move.read", FALSE, invoice_id, amount)
             pay  == Outbound("odoo", "action_register_payment", TRUE, invoice_id, amount)
         IN  IF rpc = "ok"
             THEN Effect(pendingApproval, outbound \cup {read, pay},
                         AppendLog(log, "OdooAPIServer", "record_payment", "success"),
                         GateResult("record_payment", Request(invoice_id, amount), "direct", TRUE, "success", NoFile))
             ELSE Effect(pendingApproval,
                         outbound \cup (IF rpc = "read_fails" THEN {read} ELSE {read, pay}),
                         AppendLog(log, "OdooAPIServer", "record_payment", "error"),
                         GateResult("record_payment", Request(invoice_id, amount), "direct", FALSE, "error", NoFile))

\* create_invoice: looks the partner up, creates it when absent, creates the invoice
create_invoice(amount, partner_known, rpc_ok) ==
    LET search  == Outbound("odoo", "res.partner.search_read", FALSE, 0, 0)
        partner == Outbound("odoo", "res.partner.create", TRUE, 0, 0)
        invoice == Outbound("odoo", "account.move.create", TRUE, 0, 0)
    IN  IF rpc_ok
        THEN Effect(pendingApproval,
                    outbound \cup {search, invoice} \cup (IF partner_known THEN {} ELSE {partner}),
                    AppendLog(log, "OdooAPIServer", "create_invoice", "success"),
                    GateResult("create_invoice", Request(0, amount), "direct", TRUE, "success", NoFile))
        ELSE Effect(pendingApproval, outbound \cup {search},
                    AppendLog(log, "OdooAPIServer", "create_invoice", "error"),
                    GateResult("create_invoice", Request(0, amount), "direct", FALSE, "error", NoFile))

\* the tools that only read from the external system and log the outcome
ReadTools ==
    [odoo |-> {"list_invoices", "get_balance", "list_transactions"},
     facebook |-> {"get_page_insights", "list_recent_posts", "get_comments"},
     twitter |-> {"get_analytics", "list_mentions", "get_timeline"}]
Actor == [odoo |-> "OdooAPIServer", facebook |-> "FacebookAPIServer",
          twitter |-> "TwitterAPIServer"]

read_tool(service, name, rpc_ok) ==
    Effect(pendingApproval,
           outbound \cup {Outbound(service, name, FALSE, 0, 0)},
           AppendLog(log, Actor[service], name, IF rpc_ok THEN "success" ELSE "error"),
           GateResult(name, Request(0, 0), "read", rpc_ok, IF rpc_ok THEN "success" ELSE "error", NoFile))

\* _publish_post: the Graph API feed post (no tool name dispatches to it)
publish_post(message, write_ok) ==
    Effect(pendingApproval,
           outbound \cup {Outbound("facebook", "feed", TRUE, message, 0)},
           AppendLog(log, "FacebookAPIServer", "facebook_post_published", "success"),
           GateResult("post_to_page", Request(message, 0), "direct", TRUE, "success", NoFile))

post_to_page_unchecked(message, write_ok) ==
    Effect(IF write_ok THEN facebook_create_hitl(message) ELSE pendingApproval, outbound,
           AppendLog(log, "FacebookAPIServer", "facebook_post_hitl", "pending_approval"),
           GateResult("post_to_page", Request(message, 0), "approval", TRUE, "pending_approval",
                      facebook_hitl_name(now)))
post_to_page(message, write_ok) ==
    IF write_ok
    THEN Effect(facebook_create_hitl(message), outbound,
                AppendLog(log, "FacebookAPIServer", "facebook_post_hitl", "pending_approval"),
                GateResult("post_to_page", Request(message, 0), "approval", TRUE, "pending_approval",
                           facebook_hitl_name(now)))
    \* write_text raises: caught, logged, reported as a failure result
    ELSE Effect(pendingApproval, outbound,
                AppendLog(log, "FacebookAPIServer", "facebook_post_hitl", "error"),
                GateResult("post_to_page", Request(message, 0), "approval", FALSE, "error", NoFile))

\* _publish_tweet: client.create_tweet (no tool name dispatches to it)
publish_tweet(text, write_ok) ==
    Effect(pendingApproval,
           outbound \cup {Outbound("twitter", "create_tweet", TRUE, text, 0)},
           AppendLog(log, "TwitterAPIServer", "twitter_tweet_published", "success"),
           GateResult("post_tweet", Request(text, 0), "direct", TRUE, "success", NoFile))

post_tweet(text, write_ok) ==
    IF write_ok
    THEN Effect(twitter_create_hitl(text), outbound,
                AppendLog(log, "TwitterAPIServer", "twitter_post_hitl", "pending_approval"),
                GateResult("post_tweet", Request(text, 0), "approval", TRUE, "pending_approval",
                           twitter_hitl_name(now)))
    ELSE Effect(pendingApproval, outbound,
                AppendLog(log, "TwitterAPIServer", "twitter_post_hitl", "error"),
                GateResult("post_tweet", Request(text, 0), "approval", FALSE, "error", NoFile))

\* what call_tool of the Facebook server runs for the name "post_to_page"
facebook_dispatch_post_published(message, write_ok) == publish_post(message, write_ok)
facebook_dispatch_post(message, write_ok) == post_to_page(message, write_ok)

\* call_tool: the result of the tool becomes the reply; nothing else changes
Reply(e) ==
    /\ Len(log) < MaxLog
    /\ pendingApproval' = e.pa
    /\ outbound' = e.out
    /\ log' = e.lg
    /\ gateRes' = e.res
    /\ UNCHANGED <<now, needsAction, emitted>>
    /\ UNCHANGED recVars
    /\ UNCHANGED watchVars
    /\ UNCHANGED schedVars

odoo_call_record_payment ==
    \E invoice_id \in Payloads, amount \in Amounts, write_ok \in BOOLEAN,
       rpc \in {"ok", "read_fails", "pay_fails"} :
        Reply(record_payment(invoice_id, amount, write_ok, rpc))

odoo_call_create_invoice ==
    \E amount \in Amounts, partner_known \in BOOLEAN, rpc_ok \in BOOLEAN :
        Reply(create_invoice(amount, partner_known, rpc_ok))

facebook_call_post_to_page ==
    \E message \in Payloads, write_ok \in BOOLEAN :
        Reply(facebook_dispatch_post(message, write_ok))

twitter_call_post_tweet ==
    \E text \in Payloads, write_ok \in BOOLEAN :
        Reply(post_tweet(text, write_ok))

call_read_tool ==
    \E service \in DOMAIN ReadTools, rpc_ok \in BOOLEAN :
        \E name \in ReadTools[service] : Reply(read_tool(service, name, rpc_ok))

\* call_tool with a name no branch matches: {"error": "Unknown tool"}
call_unknown_tool ==
    Reply(Effect(pendingApproval, outbound, log,
                 GateResult("unknown", Request(0, 0), "none", FALSE, "error", NoFile)))


----------------------------------------------------------------------------
(* Initial states *)

NoGateResult == GateResult("none", Request(0, 0), "none", FALSE, "none", NoFile)

\* a vault whose workflow directories and audit log are empty, and watcher
\* instances just constructed
InitBase ==
    /\ now = 0
    /\ log = <<>>
    /\ pendingApproval = EmptyDir
    /\ outbound = {}
    /\ gateRes = NoGateResult
    /\ needsAction = EmptyDir
    /\ done = EmptyDir
    /\ retryCalls = EmptyDir
    /\ backoff = [call |-> 0, attempt_number |-> 0, outcomes |-> <<>>, slept |-> <<>>,
                  state |-> "idle", result |-> 0]
    /\ seenComments = {}
    /\ seenMentions = {}
    /\ seenTweets = {}
    /\ seenInvoices = {}
    /\ lastPaymentCheck = 0
    /\ today = 0
    /\ emitted = EmptyDir
    /\ recRes = [op |-> "none", ref |-> NoFile, success |-> FALSE, status |-> "none",
                 retry_count |-> 0, items |-> {}, call |-> 0]
    /\ watchRes = [op |-> "none", listed |-> {}, items |-> <<>>, call |-> 0]
    /\ inFlight = [j \in Jobs |-> 0]
    /\ lastEvent = "none"
    /\ fsThread = "alive"
    /\ fsAlive = 1
    /\ scheduler = "running"
    /\ mainThread = "loop"

----------------------------------------------------------------------------
(* The three API servers answering tool calls on one vault *)

InitGate ==
    /\ InitBase
    /\ errorQueue = EmptyDir
    /\ watcher = "none"
    /\ outage = {}

NextGate ==
    \/ odoo_call_record_payment
    \/ odoo_call_create_invoice
    \/ facebook_call_post_to_page
    \/ twitter_call_post_tweet
    \/ call_read_tool
    \/ call_unknown_tool
    \/ Tick

SpecGate == InitGate /\ [][NextGate]_vars


----------------------------------------------------------------------------
(* Claims about the HITL gate *)

\* the last tool call was one the policy gates
GatedCall(res) ==
    \/ res.op \in {"post_to_page", "post_tweet"}
    \/ res.op = "record_payment" /\ res.arg.amount > HITL_THRESHOLD

\* the writes to an external system sent on behalf of a gated request
GatedWrites ==
    {o \in outbound :
        /\ o.write
        /\ \/ o.op \in {"feed", "create_tweet"}
           \/ o.op = "action_register_payment" /\ o.amount > HITL_THRESHOLD}

PendingFile(name) ==
    name \in DOMAIN pendingApproval /\ pendingApproval[name].status = "pending"

\* C1 as stated: every gated call returns status "pending_approval", and no
\* payment registration, feed post or tweet creation is ever sent for a gated
\* request.
C1_EveryGatedCallPending ==
    /\ GatedCall(gateRes) => gateRes.status = "pending_approval"
    /\ GatedWrites = {}

\* C1 as amended: no tool call ever sends the payment registration, the feed
\* post or the tweet creation of a gated request; a gated call returns status
\* "pending_approval" naming a pending approval file, unless writing that file
\* failed, and then it reports a failure (post_to_page, post_tweet) or raises
\* (record_payment).
C1_NoGatedSideEffect ==
    /\ GatedWrites = {}
    /\ GatedCall(gateRes) =>
        \/ gateRes.status = "pending_approval" /\ PendingFile(gateRes.file)
        \/ /\ ~gateRes.success
           /\ gateRes.status = (IF gateRes.op = "record_payment" THEN "raised" ELSE "error")

\* a gated call has returned pending_approval while the servers did send
\* writes for ungated requests
C1_Witness ==
    /\ GatedCall(gateRes)
    /\ gateRes.status = "pending_approval"
    /\ \E o \in outbound : o.write /\ o.op = "action_register_payment"

\* C2 as stated: record_payment returns "pending_approval" and leaves a pending
\* approval file exactly when amount > threshold, and runs the direct path
\* exactly when amount <= threshold.
C2_ApprovalIffAboveThreshold ==
    gateRes.op = "record_payment" =>
        /\ (gateRes.arg.amount > HITL_THRESHOLD) <=>
               (gateRes.status = "pending_approval" /\ PendingFile(gateRes.file))
        /\ (gateRes.arg.amount <= HITL_THRESHOLD) <=> (gateRes.path = "direct")

\* C2 as amended: record_payment runs the approval branch exactly when
\* amount > threshold and the direct branch (the Odoo read is sent) exactly
\* when amount <= threshold, the boundary included; on the approval branch it
\* returns "pending_approval" with a pending approval file, unless writing the
\* file failed, and then it raises and no file is reported.
C2_ThresholdDecidesPath ==
    gateRes.op = "record_payment" =>
        LET a == gateRes.arg.amount
            read == Outbound("odoo", "account.move.read", FALSE, gateRes.arg.target, a)
        IN  /\ (a > HITL_THRESHOLD) <=> (gateRes.path = "approval")
            /\ (a <= HITL_THRESHOLD) <=> (gateRes.path = "direct")
            /\ gateRes.path = "direct" =>
                   /\ read \in outbound
                   /\ gateRes.status \in {"success", "error"}
                   /\ gateRes.file = NoFile
            /\ gateRes.path = "approval" =>
                   /\ read \notin outbound
                   /\ \/ gateRes.status = "pending_approval" /\ PendingFile(gateRes.file)
                      \/ gateRes.status = "raised" /\ gateRes.file = NoFile

\* a payment of exactly the threshold has been executed directly
C2_Witness ==
    /\ gateRes.op = "record_payment"
    /\ gateRes.arg.amount = HITL_THRESHOLD
    /\ gateRes.path = "direct"
    /\ gateRes.status = "success"

\* the gated calls that returned "pending_approval", counted in the audit log
PendingLogged ==
    Cardinality({i \in DOMAIN log : log[i].result = "pending_approval"})

\* C3 as stated: after n gated calls that returned pending_approval (nobody
\* moving files out), Pending_Approval holds n pending requests: none was
\* overwritten by a later gated call.
C3_OneRequestPerGatedCall ==
    Cardinality({n \in DOMAIN pendingApproval : PendingFile(n)}) = PendingLogged


\* the step is the answer to a tool call of an API server by the name op
GateCall(op) == now' = now /\ gateRes'.op = op

\* the step appends one record to the audit log and changes nothing in it
OneRecordAppended == Len(log') = Len(log) + 1 /\ SubSeq(log', 1, Len(log)) = log

\* C23: a record_payment call with amount at or below the threshold leaves
\* Pending_Approval as it was and appends exactly one audit record, of
\* record_payment by the Odoo server, whose outcome is the call's: success,
\* or error when an Odoo request failed.
C23_DirectPaymentLogsOnce ==
    [][(GateCall("record_payment") /\ gateRes'.arg.amount <= HITL_THRESHOLD)
          => /\ pendingApproval' = pendingApproval
             /\ OneRecordAppended
             /\ log'[Len(log')].actor = "OdooAPIServer"
             /\ log'[Len(log')].action_type = "record_payment"
             /\ log'[Len(log')].result \in {"success", "error"}
             /\ log'[Len(log')].result = gateRes'.status
             /\ gateRes'.success <=> gateRes'.status = "success"
      ]_vars

\* a payment of the threshold amount failed at the registration request,
\* after another call had left an approval file
C23_Witness ==
    /\ gateRes.op = "record_payment"
    /\ gateRes.arg.amount = HITL_THRESHOLD
    /\ gateRes.status = "error"
    /\ log[Len(log)].result = "error"
    /\ Len(log) = 2
    /\ log[1].result = "pending_approval"
    /\ Cardinality(DOMAIN pendingApproval) = 1
    /\ \E o \in outbound : o.op = "action_register_payment"


----------------------------------------------------------------------------
(* Error recovery: mcp_servers/error_recovery *)

\* a line of an item's text: its key, and the number or the word after it
Line(k, n, w) == [k |-> k, n |-> n, w |-> w]

ActionTypes == {"facebook_post", "Facebook_Post", "tweet"}
Descriptions == {"desc"}
\* str.upper
Upper == [facebook_post |-> "FACEBOOK_POST", Facebook_Post |-> "FACEBOOK_POST",
          tweet |-> "TWEET"]

error_file_name(action_type, ts) == FileName("", "ERROR_" \o Upper[action_type], 0, ts)
retry_name_stamped(filename) ==
    [filename EXCEPT !.prefix = "RETRY_" \o filename.prefix, !.ts = now]
retry_name(filename) == [filename EXCEPT !.prefix = "RETRY_" \o filename.prefix]
unrecoverable_name(filename) == [filename EXCEPT !.prefix = "UNRECOVERABLE_" \o filename.prefix]

\* the text queue_for_retry writes
QueuedText(action_type, description) ==
    << Line("type", 0, "error_queue_item"),
       Line("action_type", 0, action_type),
       Line("retry_count", 0, ""),
       Line("max_retries", MAX_RETRIES, ""),
       Line("status", 0, "queued"),
       Line("description", 0, description),
       Line("none_yet", 0, "") >>

LastLine(text, k) ==
    LET at == {i \in DOMAIN text : text[i].k = k}
    IN  IF at = {} THEN 0 ELSE CHOOSE i \in at : \A j \in at : j <= i

\* for line in text.splitlines(): if line.startswith("retry_count:"): retry_count = int(...)
ParseRetryCount(text) ==
    IF LastLine(text, "retry_count") = 0 THEN 0 ELSE text[LastLine(text, "retry_count")].n

\* the same scan for "status:", as list_error_queue does it
ParseStatusQueued(text) == "queued"
ParseStatus(text) ==
    IF LastLine(text, "status") = 0 THEN "queued" ELSE text[LastLine(text, "status")].w

\* text.replace(f"retry_count: {old}", f"retry_count: {new}")
ReplaceRetryCountKept(text, old, new) == text
ReplaceRetryCount(text, old, new) ==
    [i \in DOMAIN text |->
        IF text[i].k = "retry_count" /\ text[i].n = old
        THEN Line("retry_count", new, "") ELSE text[i]]

\* text.replace(f"status: {old}", f"status: {new}")
ReplaceStatus(text, old, new) ==
    [i \in DOMAIN text |->
        IF text[i].k = "status" /\ text[i].w = old
        THEN Line("status", 0, new) ELSE text[i]]

\* text.replace("*(none yet)*", entry) if retry_count == 0 else text + entry
AddRetryHistory(text, retry_count, new_count) ==
    IF retry_count = 0
    THEN [i \in DOMAIN text |->
            IF text[i].k = "none_yet" THEN Line("retry", new_count, "") ELSE text[i]]
    ELSE Append(text, Line("retry", new_count, ""))

\* the result of an operation on Error_Queue (a tool call, a scan of the
\* orchestrator); call numbers the operations so far
RecResult(op, ref, success, status, retry_count, items) ==
    [op |-> op, ref |-> ref, success |-> success, status |-> status,
     retry_count |-> retry_count, items |-> items, call |-> recRes.call + 1]

\* the effect of one tool call on Error_Queue, Needs_Action, Done and the log
RecEffect(eq, na, dn, lg, res) == [eq |-> eq, na |-> na, dn |-> dn, lg |-> lg, res |-> res]

Raised(op, ref, eq, na) ==
    RecEffect(eq, na, done, log, RecResult(op, ref, FALSE, "raised", 0, {}))

NotFound(op, ref) ==
    RecEffect(errorQueue, needsAction, done, log,
              RecResult(op, ref, FALSE, "not_found", 0, {}))

queue_for_retry(action_type, description, write_ok) ==
    LET fname == error_file_name(action_type, now)
    IN  IF ~write_ok
        THEN Raised("queue_for_retry", fname, errorQueue, needsAction)
        ELSE RecEffect(WriteText(errorQueue, fname, QueuedText(action_type, description)),
                       needsAction, done,
                       AppendLog(log, "ErrorRecoveryServer", "error_queued", "success"),
                       RecResult("queue_for_retry", fname, TRUE, "queued", 0, {}))

list_error_queue ==
    RecEffect(errorQueue, needsAction, done,
              AppendLog(log, "ErrorRecoveryServer", "list_error_queue", "success"),
              RecResult("list_error_queue", NoFile, TRUE, "listed",
                        Cardinality(DOMAIN errorQueue),
                        {[file |-> f, status |-> ParseStatus(errorQueue[f]),
                          retry_count |-> ParseRetryCount(errorQueue[f])] :
                            f \in DOMAIN errorQueue}))

\* for status in ["queued", "retrying"]: text.replace(...); text += reason
MarkedTextQueuedOnly(text, reason) ==
    Append(ReplaceStatus(text, "queued", "unrecoverable"), Line("unrecoverable", 0, reason))
MarkedText(text, reason) ==
    Append(ReplaceStatus(ReplaceStatus(text, "queued", "unrecoverable"),
                         "retrying", "unrecoverable"),
           Line("unrecoverable", 0, reason))

\* file_path.rename(dest): the file leaves Error_Queue and becomes dest
RenameKeepingSource(eq, filename) == eq
Rename(eq, filename) == Remove(eq, filename)

\* the "if not file_path.exists()" test of both tools
Missing(filename) == filename \notin DOMAIN errorQueue

\* fault: "write" when write_text of the item raises, "rename" when rename
\* raises (always possible; on Windows also whenever dest exists), else "none"
mark_unrecoverable_as(op, filename, reason, fault) ==
    IF Missing(filename) THEN NotFound(op, filename)
    ELSE LET text == MarkedText(errorQueue[filename], reason)
             marked == WriteText(errorQueue, filename, text)
         IN  IF fault = "write" THEN Raised(op, filename, errorQueue, needsAction)
             ELSE IF fault = "rename" THEN Raised(op, filename, marked, needsAction)
             ELSE RecEffect(Rename(marked, filename), needsAction,
                            WriteText(done, unrecoverable_name(filename), text),
                            AppendLog(log, "ErrorRecoveryServer", "error_unrecoverable",
                                      "unrecoverable"),
                            RecResult(op, filename, TRUE, "unrecoverable", 0, {}))

mark_unrecoverable_unchecked(filename, reason, fault) ==
    IF Missing(filename)
    THEN Raised("mark_unrecoverable", filename, errorQueue, needsAction)
    ELSE mark_unrecoverable_as("mark_unrecoverable", filename, reason, fault)
mark_unrecoverable(filename, reason, fault) ==
    mark_unrecoverable_as("mark_unrecoverable", filename, reason, fault)

\* "if retry_count >= MAX_RETRIES"
ExhaustedOffByOne(retry_count) == retry_count > MAX_RETRIES
Exhausted(retry_count) == retry_count >= MAX_RETRIES

\* fault: "copy" when writing the Needs_Action copy raises, "write" when
\* rewriting the original raises, "rename" in the escalation, else "none"
retry_failed_action(filename, fault) ==
    IF Missing(filename) THEN NotFound("retry_failed_action", filename)
    ELSE LET text == errorQueue[filename]
             retry_count == ParseRetryCount(text)
             new_count == retry_count + 1
             copy == AddRetryHistory(
                         ReplaceStatus(ReplaceRetryCount(text, retry_count, new_count),
                                       "queued", "retrying"),
                         retry_count, new_count)
             copied == WriteText(needsAction, retry_name(filename), copy)
             updated == ReplaceStatus(text, "queued", "retrying")
         IN  IF Exhausted(retry_count)
             THEN mark_unrecoverable_as("retry_failed_action", filename, "max_retries",
                                        IF fault = "copy" THEN "none" ELSE fault)
             ELSE IF fault = "copy"
             THEN Raised("retry_failed_action", filename, errorQueue, needsAction)
             ELSE IF fault = "write"
             THEN Raised("retry_failed_action", filename, errorQueue, copied)
             ELSE RecEffect(WriteText(errorQueue, filename, updated), copied, done,
                            AppendLog(log, "ErrorRecoveryServer", "error_retry", "retrying"),
                            RecResult("retry_failed_action", filename, TRUE, "retrying",
                                      new_count, {}))

\* the file names a caller passes: the items in Error_Queue, the items that
\* were moved out of it, and a name that was never queued
Original(name) == [name EXCEPT !.prefix = ""]
Filenames ==
    DOMAIN errorQueue \cup {Original(n) : n \in DOMAIN done}
        \cup {FileName("", "ERROR_NONE", 0, 0)}

\* history for the items queued in this run: retry_failed_action calls answered
CountRetry(res) ==
    IF res.op = "queue_for_retry" /\ res.success
    THEN [n \in DOMAIN retryCalls \cup {res.ref} |-> IF n = res.ref THEN 0 ELSE retryCalls[n]]
    ELSE IF res.op = "retry_failed_action" /\ res.success /\ res.ref \in DOMAIN retryCalls
    THEN [retryCalls EXCEPT ![res.ref] = @ + 1]
    ELSE retryCalls

RecReply(e) ==
    /\ recRes.call < MaxCalls
    /\ errorQueue' = e.eq
    /\ needsAction' = e.na
    /\ done' = e.dn
    /\ log' = e.lg
    /\ recRes' = e.res
    /\ retryCalls' = CountRetry(e.res)
    /\ UNCHANGED backoff
    /\ UNCHANGED <<now, emitted>>
    /\ UNCHANGED gateVars
    /\ UNCHANGED watchVars
    /\ UNCHANGED schedVars

call_queue_for_retry ==
    \E action_type \in ActionTypes, description \in Descriptions, write_ok \in BOOLEAN :
        RecReply(queue_for_retry(action_type, description, write_ok))

call_list_error_queue == RecReply(list_error_queue)

call_retry_failed_action ==
    \E filename \in Filenames, fault \in {"none", "copy", "write", "rename"} :
        RecReply(retry_failed_action(filename, fault))

call_mark_unrecoverable ==
    \E filename \in Filenames, fault \in {"none", "write", "rename"} :
        RecReply(mark_unrecoverable(filename, "manual", fault))

\* _run_error_recovery_scan of the orchestrator, a process of its own on the
\* same vault: counts the files of Error_Queue and records a warning when
\* there are any; it writes no file of a workflow directory
error_recovery_scan ==
    RecEffect(errorQueue, needsAction, done,
              IF errorQueue # EmptyDir
              THEN AppendLog(log, "Orchestrator", "error_recovery_scan", "warning")
              ELSE log,
              RecResult("error_recovery_scan", NoFile, TRUE, "scanned",
                        Cardinality(DOMAIN errorQueue), {}))

run_error_recovery_scan == RecReply(error_recovery_scan)

\* the second an item found at start-up and retried since was queued in:
\* before this run
StartTime == 0 - 1

\* Error_Queue as the server finds it: empty, or holding one item queued
\* before this run, retried any number of times up to the maximum, or
\* holding one item another server process queued a moment ago, in the
\* second this run starts
FoundItem(retry_count, status) ==
    ReplaceStatus(ReplaceRetryCount(QueuedText("facebook_post", "desc"), 0, retry_count),
                  "queued", status)

InitRecovery ==
    /\ InitBase
    /\ watcher = "none"
    /\ outage = {}
    /\ \/ errorQueue = EmptyDir
       \/ \E retry_count \in 0..MAX_RETRIES, status \in {"queued", "retrying"} :
            errorQueue = WriteText(EmptyDir, error_file_name("facebook_post", StartTime),
                                   FoundItem(retry_count, status))
       \/ errorQueue = WriteText(EmptyDir, error_file_name("facebook_post", now),
                                 FoundItem(0, "queued"))

NextRecovery ==
    \/ call_queue_for_retry
    \/ call_list_error_queue
    \/ call_retry_failed_action
    \/ call_mark_unrecoverable
    \/ run_error_recovery_scan
    \/ Tick

SpecRecovery == InitRecovery /\ [][NextRecovery]_vars


----------------------------------------------------------------------------
(* Claims about the error-recovery server *)

\* the step is the answer to a tool call of the error-recovery server
RecCall(op) == recRes'.call # recRes.call /\ recRes'.op = op

\* the texts of ErrorQueueItems that have not been escalated: the items in
\* Error_Queue and their copies in Needs_Action
RetryCountsBounded(dir) ==
    \A f \in DOMAIN dir : ParseRetryCount(dir[f]) <= MAX_RETRIES
RetryCountsGrow(dir, dir2) ==
    \A f \in DOMAIN dir \cap DOMAIN dir2 :
        ParseRetryCount(dir2[f]) >= ParseRetryCount(dir[f])

\* C6: the retry_count recorded in an item that is not yet in Done (the file
\* in Error_Queue, its copy in Needs_Action) never exceeds MAX_RETRIES and no
\* step lowers it.
C6_RetryCountMonotoneBounded ==
    /\ [](RetryCountsBounded(errorQueue) /\ RetryCountsBounded(needsAction))
    /\ [][RetryCountsGrow(errorQueue, errorQueue')
          /\ RetryCountsGrow(needsAction, needsAction')]_vars

\* an item found with two retries has been retried: its copy records three
C6_Witness ==
    /\ recRes.op = "retry_failed_action"
    /\ recRes.success
    /\ recRes.retry_count = MAX_RETRIES
    /\ retry_name(recRes.ref) \in DOMAIN needsAction
    /\ ParseRetryCount(needsAction[retry_name(recRes.ref)]) = MAX_RETRIES
    /\ recRes.ref \in DOMAIN errorQueue

\* C7 as stated: for an item queued in this run, every answered
\* retry_failed_action call advances the retry_count recorded in its
\* Error_Queue file by one, and the call after the count reached MAX_RETRIES
\* moves it out of Error_Queue.
C7_RetryAdvancesCount ==
    \A f \in DOMAIN retryCalls :
        f \in DOMAIN errorQueue =>
            /\ ParseRetryCount(errorQueue[f]) = retryCalls[f]
            /\ retryCalls[f] <= MAX_RETRIES

UnrecoverableInDone(f) ==
    /\ f \notin DOMAIN errorQueue'
    /\ unrecoverable_name(f) \in DOMAIN done'
    /\ ParseStatus(done'[unrecoverable_name(f)]) = "unrecoverable"
    /\ Cardinality({n \in DOMAIN done' : Original(n) = f}) = 1

\* C8: a retry_failed_action call that finds retry_count >= MAX_RETRIES does
\* exactly what mark_unrecoverable does on that item (also when a write of it
\* fails); when it returns, the file is in Done with status unrecoverable and
\* no longer in Error_Queue, and Needs_Action is as it was; the same call made
\* again right after finds nothing and changes nothing.
C8_RetryAtMaxEscalates ==
    [][/\ ( /\ RecCall("retry_failed_action")
            /\ recRes'.ref \in DOMAIN errorQueue
            /\ ParseRetryCount(errorQueue[recRes'.ref]) >= MAX_RETRIES )
          => LET f == recRes'.ref
             IN  /\ \E fault \in {"none", "write", "rename"} :
                       LET m == mark_unrecoverable(f, "max_retries", fault)
                       IN  /\ errorQueue' = m.eq /\ done' = m.dn /\ log' = m.lg
                           /\ recRes'.status = m.res.status
                           /\ recRes'.success = m.res.success
                 /\ needsAction' = needsAction
                 /\ recRes'.success =>
                       UnrecoverableInDone(f) /\ recRes'.status = "unrecoverable"
       /\ ( /\ RecCall("retry_failed_action")
            /\ recRes.op = "retry_failed_action"
            /\ recRes.status = "unrecoverable"
            /\ recRes'.ref = recRes.ref )
          => /\ recRes'.status = "not_found"
             /\ UNCHANGED <<errorQueue, needsAction, done, log>>
      ]_vars

\* an item found at the maximum has been escalated by retry_failed_action
C8_Witness ==
    /\ recRes.op = "retry_failed_action"
    /\ recRes.status = "unrecoverable"
    /\ unrecoverable_name(recRes.ref) \in DOMAIN done
    /\ ParseRetryCount(done[unrecoverable_name(recRes.ref)]) = MAX_RETRIES
    /\ needsAction = EmptyDir

\* C9: a mark_unrecoverable call that returns success leaves the item absent
\* from Error_Queue and present once in Done with status unrecoverable; the
\* same call made again right after fails with not-found and changes no
\* directory and no log record.
C9_MarkUnrecoverableOnce ==
    [][/\ (RecCall("mark_unrecoverable") /\ recRes'.success)
          => UnrecoverableInDone(recRes'.ref)
       /\ ( /\ RecCall("mark_unrecoverable")
            /\ recRes.op = "mark_unrecoverable"
            /\ recRes.success
            /\ recRes'.ref = recRes.ref )
          => /\ recRes'.status = "not_found"
             /\ ~recRes'.success
             /\ UNCHANGED <<errorQueue, needsAction, done, log>>
      ]_vars

\* mark_unrecoverable has been called twice in a row on one reference
C9_Witness ==
    /\ recRes.op = "mark_unrecoverable"
    /\ recRes.status = "not_found"
    /\ unrecoverable_name(recRes.ref) \in DOMAIN done
    /\ ParseStatus(done[unrecoverable_name(recRes.ref)]) = "unrecoverable"
    /\ recRes.ref \notin DOMAIN errorQueue

\* C10: retry_failed_action and mark_unrecoverable on a reference that is not
\* in Error_Queue return a not-found failure result (they do not raise) and
\* leave the workflow directories and the audit log as they were.
C10_NotFoundIsStructured ==
    [][( /\ RecCall("retry_failed_action") \/ RecCall("mark_unrecoverable")
         /\ recRes'.ref \notin DOMAIN errorQueue )
       => /\ recRes'.status = "not_found"
          /\ ~recRes'.success
          /\ UNCHANGED <<errorQueue, needsAction, done, pendingApproval, log>>
      ]_vars

\* both tools have answered not-found for a name that was never queued while
\* Error_Queue holds an item
C10_Witness ==
    /\ recRes.status = "not_found"
    /\ recRes.op \in {"retry_failed_action", "mark_unrecoverable"}
    /\ recRes.ref \notin DOMAIN errorQueue
    /\ recRes.ref \notin {Original(n) : n \in DOMAIN done}
    /\ errorQueue # EmptyDir
    /\ recRes.call >= 2

\* C11 as stated: a queue_for_retry call that returns success adds exactly
\* one new file to Error_Queue, holding status queued and retry_count 0, and
\* leaves every file that was in Error_Queue with the content it had.
C11_QueueAddsOneItem ==
    [][(RecCall("queue_for_retry") /\ recRes'.success)
       => /\ recRes'.ref \notin DOMAIN errorQueue
          /\ DOMAIN errorQueue' = DOMAIN errorQueue \cup {recRes'.ref}
          /\ ParseStatus(errorQueue'[recRes'.ref]) = "queued"
          /\ ParseRetryCount(errorQueue'[recRes'.ref]) = 0
          /\ \A f \in DOMAIN errorQueue : errorQueue'[f] = errorQueue[f]
      ]_vars

\* the step answers retry_failed_action for an item of Error_Queue whose
\* retry_count is below MAX_RETRIES
RetryBelowMax ==
    /\ RecCall("retry_failed_action")
    /\ recRes'.ref \in DOMAIN errorQueue
    /\ ParseRetryCount(errorQueue[recRes'.ref]) < MAX_RETRIES

C13_UnrecoverableNeverReattempted ==
    [][\A n \in DOMAIN done :
          /\ n \in DOMAIN done'
          /\ done'[n] = done[n]
          /\ retry_name(Original(n)) \in DOMAIN needsAction'
                => /\ retry_name(Original(n)) \in DOMAIN needsAction
                   /\ needsAction'[retry_name(Original(n))]
                        = needsAction[retry_name(Original(n))]
      ]_vars

\* the workflow directories that hold the ErrorQueueItem queued as f, under
\* the name f or the name a tool gave it when it put it there
DirectoriesOf(f) ==
    (IF f \in DOMAIN errorQueue THEN {"Error_Queue"} ELSE {})
    \cup (IF retry_name(f) \in DOMAIN needsAction THEN {"Needs_Action"} ELSE {})
    \cup (IF unrecoverable_name(f) \in DOMAIN done THEN {"Done"} ELSE {})
    \cup (IF f \in DOMAIN pendingApproval THEN {"Pending_Approval"} ELSE {})

ErrorQueueItems ==
    DOMAIN errorQueue \cup {Original(n) : n \in DOMAIN needsAction \cup DOMAIN done}

\* C14 as stated: every ErrorQueueItem is in exactly one workflow directory,
\* also after retry_failed_action and mark_unrecoverable.
C14_ItemInOneDirectory ==
    \A f \in ErrorQueueItems : Cardinality(DirectoriesOf(f)) = 1

\* the front matter of an item's text: retry_count is its third line, status
\* its fifth
StoredRetryCount(text) == text[3].n
StoredStatus(text) == text[5].w

----------------------------------------------------------------------------
(* Watchers: watchers/facebook_watcher, twitter_watcher, odoo_watcher *)

Ids == 1..MaxId
\* an upstream entry that lacks its "id" (reading it raises)
Malformed == 0
Entries == Ids \cup {Malformed}
\* what an upstream query can answer: a failed query answers nothing, <<>>.
\* Reading a malformed entry raises, so the entries after it are never read
\* and the answers enumerated are those a malformed entry ends.
Windows(n) ==
    LET Sound(k) == [1..k -> Ids]
    IN  UNION {Sound(k) : k \in 0..n}
        \cup UNION {{Append(w, Malformed) : w \in Sound(k)} : k \in 0..(n - 1)}
Range(seq) == {seq[i] : i \in DOMAIN seq}

Item(type, id) == [type |-> type, id |-> id]
Typed(type, ids) == [i \in DOMAIN ids |-> Item(type, ids[i])]

\* for entry in data: id = entry["id"]; if id not in seen: seen.add(id); new.append(...)
RECURSIVE ScanSeenKept(_, _, _)
ScanSeenKept(window, seen, new) ==
    IF window = <<>> THEN [seen |-> seen, new |-> new, raised |-> FALSE]
    ELSE IF Head(window) = Malformed THEN [seen |-> seen, new |-> new, raised |-> TRUE]
    ELSE IF Head(window) \notin seen
         THEN ScanSeenKept(Tail(window), seen, Append(new, Head(window)))
         ELSE ScanSeenKept(Tail(window), seen, new)
RECURSIVE ScanNoDedup(_, _, _)
ScanNoDedup(window, seen, new) ==
    IF window = <<>> THEN [seen |-> seen, new |-> new, raised |-> FALSE]
    ELSE IF Head(window) = Malformed THEN [seen |-> seen, new |-> new, raised |-> TRUE]
    ELSE ScanNoDedup(Tail(window), seen \cup {Head(window)}, Append(new, Head(window)))
RECURSIVE Scan(_, _, _)
Scan(window, seen, new) ==
    IF window = <<>> THEN [seen |-> seen, new |-> new, raised |-> FALSE]
    ELSE IF Head(window) = Malformed THEN [seen |-> seen, new |-> new, raised |-> TRUE]
    ELSE IF Head(window) \notin seen
         THEN Scan(Tail(window), seen \cup {Head(window)}, Append(new, Head(window)))
         ELSE Scan(Tail(window), seen, new)

\* BaseWatcher.log_action: one audit record of the watcher
log_action(l, actor, action_type, result) == AppendLog(l, actor, action_type, result)

\* FacebookWatcher.check_for_updates on an instance whose seen-sets are
\* seenC and seenM; comments is what the posts' comment queries list, in
\* order, mentions what the tagged query lists
facebook_check_for_updates(seenC, seenM, comments, mentions) ==
    LET c == Scan(comments, seenC, <<>>)
        m == Scan(mentions, seenM, <<>>)
    IN  IF c.raised
        THEN [seenC |-> c.seen, seenM |-> seenM, items |-> <<>>, result |-> "error"]
        ELSE IF m.raised
        THEN [seenC |-> c.seen, seenM |-> m.seen, items |-> Typed("comment", c.new),
              result |-> "error"]
        ELSE [seenC |-> c.seen, seenM |-> m.seen,
              items |-> Typed("comment", c.new) \o Typed("mention", m.new),
              result |-> "success"]

\* TwitterWatcher.check_for_updates: _check_mentions catches what its loop
\* raises and answers []
twitter_check_for_updates(seenT, mentions) ==
    LET t == Scan(mentions, seenT, <<>>)
    IN  [seenT |-> t.seen,
         items |-> IF t.raised THEN <<>> ELSE Typed("tweet", t.new),
         result |-> "success"]

\* new_overdue = [inv for inv in invoices if inv["id"] not in seen]
NewOverdueAll(invoices, seen) == invoices
NewOverdue(invoices, seen) ==
    SelectSeq(invoices, LAMBDA id : id \notin seen)

\* OdooWatcher._check_balance_alert: no alert without a uid; the accounts
\* query answers the accounts whose balances sum to cash, or fails, and a
\* failed query is read as no accounts (_call(...) or [])
check_balance_alert(uid, answered, cash) ==
    LET total_cash == IF answered THEN cash ELSE 0
    IN  uid /\ total_cash < LOW_BALANCE_THRESHOLD

\* OdooWatcher.check_for_updates: overdue invoices, then the payments of the
\* cursor day (asked only when the cursor is not the current day), then the
\* low-balance alert
odoo_check_for_updates(seenI, cursor, day, invoices, payments, low) ==
    IF Malformed \in Range(invoices)
    THEN [seenI |-> seenI, cursor |-> cursor, items |-> <<>>, result |-> "error"]
    ELSE [seenI |-> seenI \cup Range(invoices),
          cursor |-> day,
          items |-> Typed("overdue_invoice", NewOverdue(invoices, seenI))
                    \o (IF cursor = day THEN <<>> ELSE Typed("new_payment", payments))
                    \o (IF low THEN <<Item("low_balance", 0)>> ELSE <<>>),
          result |-> "success"]

\* what a check answered, with the upstream entries it was shown, the
\* malformed one among them
Listed(type, window) == {Item(type, id) : id \in Range(window)}
WatchResult(op, listed, items) ==
    [op |-> op, listed |-> listed, items |-> items, call |-> watchRes.call + 1]

\* the answer to the second query of a check whose first query answered
\* first: the two hold at most MaxWindow entries together, and a query that
\* is not made answers nothing
NextWindows(first, made) ==
    IF made /\ Malformed \notin Range(first)
    THEN Windows(MaxWindow - Len(first))
    ELSE {<<>>}

\* what the upstream call can answer: _graph, _call and _check_mentions
\* catch what a failed request raises and answer nothing
Answers(call, windows) == IF call \in outage THEN {<<>>} ELSE windows

\* cash totals around the threshold, in dollars
Balances == {LOW_BALANCE_THRESHOLD - 1, LOW_BALANCE_THRESHOLD}

WatchFrame ==
    /\ UNCHANGED <<now, needsAction, emitted>>
    /\ UNCHANGED gateVars
    /\ UNCHANGED recVars
    /\ UNCHANGED schedVars

\* a running FacebookWatcher is asked for updates
FacebookCheck ==
    /\ watcher = "facebook"
    /\ watchRes.call < MaxChecks
    /\ \E comments \in Answers("comments", Windows(MaxWindow)) :
       \E mentions \in Answers("tagged", NextWindows(comments, TRUE)) :
        LET r == facebook_check_for_updates(seenComments, seenMentions,
                                            comments, mentions)
        IN  /\ seenComments' = r.seenC
            /\ seenMentions' = r.seenM
            /\ watchRes' = WatchResult("facebook",
                    Listed("comment", comments) \cup Listed("mention", mentions), r.items)
            /\ log' = log_action(log, "FacebookWatcher", "facebook_check", r.result)
    /\ UNCHANGED <<seenTweets, seenInvoices, lastPaymentCheck, today, watcher, outage>>
    /\ WatchFrame

TwitterCheck ==
    /\ watcher = "twitter"
    /\ watchRes.call < MaxChecks
    /\ \E mentions \in Answers("mentions", Windows(MaxWindow)) :
        LET r == twitter_check_for_updates(seenTweets, mentions)
        IN  /\ seenTweets' = r.seenT
            /\ watchRes' = WatchResult("twitter", Listed("tweet", mentions), r.items)
            /\ log' = log_action(log, "TwitterWatcher", "twitter_check", r.result)
    /\ UNCHANGED <<seenComments, seenMentions, seenInvoices, lastPaymentCheck, today,
                   watcher, outage>>
    /\ WatchFrame

OdooCheck ==
    /\ watcher = "odoo"
    /\ watchRes.call < MaxChecks
    /\ \E invoices \in Answers("invoices", Windows(MaxWindow)), cash \in Balances :
       \E payments \in Answers("payments",
                                NextWindows(invoices, lastPaymentCheck # today)) :
        LET low == check_balance_alert("authenticate" \notin outage,
                                       "accounts" \notin outage, cash)
            r == odoo_check_for_updates(seenInvoices, lastPaymentCheck, today,
                                        invoices, payments, low)
        IN  /\ Malformed \notin Range(payments)
            /\ seenInvoices' = r.seenI
            /\ lastPaymentCheck' = r.cursor
            /\ watchRes' = WatchResult("odoo",
                    Listed("overdue_invoice", invoices) \cup Listed("new_payment", payments),
                    r.items)
            /\ log' = log_action(log, "OdooWatcher", "odoo_check", r.result)
    /\ UNCHANGED <<seenComments, seenMentions, seenTweets, today, watcher, outage>>
    /\ WatchFrame

\* midnight passes
NextDay ==
    /\ watcher = "odoo"
    /\ today < MaxTime
    /\ today' = today + 1
    /\ UNCHANGED <<now, log, needsAction, emitted, seenComments, seenMentions,
                   seenTweets, seenInvoices, lastPaymentCheck, watcher, outage,
                   watchRes>>
    /\ UNCHANGED gateVars
    /\ UNCHANGED recVars
    /\ UNCHANGED schedVars

\* one watcher process: FacebookWatcher, TwitterWatcher or OdooWatcher is
\* constructed and its polling loop asks it for updates again and again
Watchers == {"facebook", "twitter", "odoo"}

InitWatch ==
    /\ InitBase
    /\ errorQueue = EmptyDir
    /\ watcher \in Watchers
    /\ outage = {}

NextWatch ==
    \/ FacebookCheck
    \/ TwitterCheck
    \/ OdooCheck
    \/ NextDay

SpecWatch == InitWatch /\ [][NextWatch]_vars

\* the upstream calls a watcher's check makes
Calls(w) ==
    IF w = "facebook" THEN {"comments", "tagged"}
    ELSE IF w = "twitter" THEN {"mentions"}
    ELSE {"invoices", "payments", "authenticate", "accounts"}

\* one watcher process whose upstream is failing on some of its calls
InitUpstream ==
    /\ InitBase
    /\ errorQueue = EmptyDir
    /\ watcher \in Watchers
    /\ outage \in SUBSET Calls(watcher) \ {{}}

SpecUpstream == InitUpstream /\ [][NextWatch]_vars

----------------------------------------------------------------------------
(* Claims about the watchers *)

WatchCall(op) == watchRes'.call # watchRes.call /\ watchRes'.op = op

Returned(type) == {it.id : it \in {i \in Range(watchRes'.items) : i.type = type}}

\* C4: a check_for_updates call on a watcher instance returns no identifier
\* that was in that instance's seen-set when the call began, whatever the
\* upstream lists; and no identifier ever leaves a seen-set.
C4_SeenNeverReemitted ==
    [][/\ WatchCall("facebook") =>
            /\ Returned("comment") \cap seenComments = {}
            /\ Returned("mention") \cap seenMentions = {}
       /\ WatchCall("twitter") => Returned("tweet") \cap seenTweets = {}
       /\ WatchCall("odoo") => Returned("overdue_invoice") \cap seenInvoices = {}
       /\ seenComments \subseteq seenComments'
       /\ seenMentions \subseteq seenMentions'
       /\ seenTweets \subseteq seenTweets'
       /\ seenInvoices \subseteq seenInvoices'
      ]_vars


\* a second check of one watcher is shown an identifier its first check
\* returned, and answers without it
C4_Witness ==
    /\ watchRes.call = 2
    /\ watchRes.op = "facebook"
    /\ Len(log) = 2
    /\ log[1].result = "success"
    /\ log[2].result = "success"
    /\ seenComments = {1}
    /\ Item("comment", 1) \in watchRes.listed
    /\ watchRes.items = <<>>

\* the identifiers the check was shown, and whether all its entries were sound
ListedIds(type) == {it.id : it \in {i \in watchRes'.listed : i.type = type}}
SoundAnswer == \A i \in watchRes'.listed : i.id # Malformed
Count(type) == Len(SelectSeq(watchRes'.items, LAMBDA i : i.type = type))

\* C21: a check whose upstream answers are sound returns, of each kind kept
\* in a seen-set, exactly the identifiers it was shown that were not in the
\* seen-set before the call, and leaves the seen-set as the old one united
\* with the identifiers shown; the comments, mentions and tweets returned
\* are as many as those identifiers.
C21_EmitsWindowMinusSeen ==
    [][/\ (WatchCall("facebook") /\ SoundAnswer) =>
            /\ Returned("comment") = ListedIds("comment") \ seenComments
            /\ Returned("mention") = ListedIds("mention") \ seenMentions
            /\ seenComments' = seenComments \cup ListedIds("comment")
            /\ seenMentions' = seenMentions \cup ListedIds("mention")
            /\ Count("comment") = Cardinality(Returned("comment"))
            /\ Count("mention") = Cardinality(Returned("mention"))
       /\ (WatchCall("twitter") /\ SoundAnswer) =>
            /\ Returned("tweet") = ListedIds("tweet") \ seenTweets
            /\ seenTweets' = seenTweets \cup ListedIds("tweet")
            /\ Count("tweet") = Cardinality(Returned("tweet"))
       /\ (WatchCall("odoo") /\ SoundAnswer) =>
            /\ Returned("overdue_invoice") = ListedIds("overdue_invoice") \ seenInvoices
            /\ seenInvoices' = seenInvoices \cup ListedIds("overdue_invoice")
      ]_vars

\* a watcher that had seen invoice 1 was shown invoices 1 and 2 and returned
\* invoice 2 alone
C21_Witness ==
    /\ watchRes.call = 2
    /\ watchRes.op = "odoo"
    /\ watchRes.listed = {Item("overdue_invoice", 1), Item("overdue_invoice", 2)}
    /\ watchRes.items = <<Item("overdue_invoice", 2)>>
    /\ seenInvoices = {1, 2}
    /\ log[1].result = "success"
    /\ log[2].result = "success"

\* C22 as stated: whatever its kind, a candidate a watcher instance returned
\* is not returned again by the next check of that instance.
C22_NoKindReemitted ==
    [][\A w \in Watchers :
          (WatchCall(w) /\ watchRes.op = w)
              => Range(watchRes'.items) \cap Range(watchRes.items) = {}
      ]_vars

\* the upstream calls the coming check of watcher w makes: the payments of
\* the cursor day are asked only when the cursor is not the current day, the
\* accounts only with a uid
CallsMade(w) ==
    IF w # "odoo" THEN Calls(w)
    ELSE {"invoices", "authenticate"}
         \cup (IF lastPaymentCheck # today THEN {"payments"} ELSE {})
         \cup (IF "authenticate" \notin outage THEN {"accounts"} ELSE {})

\* C20 as stated: a check_for_updates call returns, and when one of the
\* upstream calls it makes fails it returns the empty sequence.
C20_EmptyOnUpstreamFailure ==
    [][\A w \in Watchers :
          (WatchCall(w) /\ CallsMade(w) \cap outage # {}) => watchRes'.items = <<>>
      ]_vars

----------------------------------------------------------------------------
(* Orchestrator: the scheduled watcher jobs of watchers/orchestrator *)

\* <SERVICE>_<KIND>_<id>_<ts>.md of create_action_file
ActionKind ==
    [comment |-> "FACEBOOK_COMMENT", mention |-> "FACEBOOK_MENTION",
     tweet |-> "TWITTER_MENTION", overdue_invoice |-> "ODOO_INVOICE",
     new_payment |-> "ODOO_PAYMENT", low_balance |-> "ODOO_ALERT_LOW_BALANCE"]
action_file_name(item, ts) == FileName("", ActionKind[item.type], item.id, ts)

ActionFileActor ==
    [comment |-> "FacebookWatcher", mention |-> "FacebookWatcher",
     tweet |-> "TwitterWatcher", overdue_invoice |-> "OdooWatcher",
     new_payment |-> "OdooWatcher", low_balance |-> "OdooWatcher"]
ActionFileLog ==
    [comment |-> "facebook_action_file", mention |-> "facebook_action_file",
     tweet |-> "twitter_action_file", overdue_invoice |-> "odoo_action_file",
     new_payment |-> "odoo_action_file", low_balance |-> "odoo_action_file"]

\* history: tick number `tick` persisted the identifier of item
Emit(em, item, tick) ==
    [k \in DOMAIN em \cup {item} |->
        IF k = item THEN (IF k \in DOMAIN em THEN em[k] ELSE {}) \cup {tick}
        ELSE em[k]]

\* for item in items: watcher.create_action_file(item), each one
\* filename.write_text(content) then log_action; the write of item number
\* fail_at raises (0: none does) and ends the loop
RECURSIVE create_action_files(_, _, _, _, _, _)
create_action_files(items, k, fail_at, na, lg, em) ==
    IF k > Len(items) \/ k = fail_at
    THEN [needsAction |-> na, log |-> lg, emitted |-> em]
    ELSE create_action_files(items, k + 1, fail_at,
            WriteText(na, action_file_name(items[k], now), items[k]),
            log_action(lg, ActionFileActor[items[k].type], ActionFileLog[items[k].type],
                       "success"),
            Emit(em, items[k], watchRes.call + 1))

\* one run of a scheduled job: what the fresh watcher's check answered
\* (result r, audit records lg) is persisted item by item
RunCheckOnce(op, listed, r, actor, action_type) ==
    \E fail_at \in 0..Len(r.items) :
        LET p == create_action_files(r.items, 1, fail_at, needsAction,
                                     log_action(log, actor, action_type, r.result), emitted)
        IN  /\ needsAction' = p.needsAction
            /\ log' = p.log
            /\ emitted' = p.emitted
            /\ watchRes' = WatchResult(op, listed, r.items)

OrchFrame ==
    /\ UNCHANGED <<now, seenComments, seenMentions, seenTweets, seenInvoices,
                   lastPaymentCheck, today, watcher, outage>>
    /\ UNCHANGED gateVars
    /\ UNCHANGED recVars
    /\ UNCHANGED schedVars

\* _run_facebook_check_once: FacebookWatcher(...) is constructed, with empty
\* seen-sets, asked once and dropped
run_facebook_check_once ==
    /\ watchRes.call < MaxChecks
    /\ \E comments \in Windows(MaxWindow) : \E mentions \in NextWindows(comments, TRUE) :
        RunCheckOnce("facebook",
                     Listed("comment", comments) \cup Listed("mention", mentions),
                     facebook_check_for_updates({}, {}, comments, mentions),
                     "FacebookWatcher", "facebook_check")
    /\ OrchFrame

run_twitter_check_once ==
    /\ watchRes.call < MaxChecks
    /\ \E mentions \in Windows(MaxWindow) :
        RunCheckOnce("twitter", Listed("tweet", mentions),
                     twitter_check_for_updates({}, mentions),
                     "TwitterWatcher", "twitter_check")
    /\ OrchFrame

\* _run_odoo_check_once: the fresh OdooWatcher's payment cursor is the day of
\* its construction, so the tick asks for no payments
run_odoo_check_once ==
    /\ watchRes.call < MaxChecks
    /\ \E invoices \in Windows(MaxWindow), low \in BOOLEAN :
        RunCheckOnce("odoo", Listed("overdue_invoice", invoices),
                     odoo_check_for_updates({}, today, today, invoices, <<>>, low),
                     "OdooWatcher", "odoo_check")
    /\ OrchFrame

\* the orchestrator has started its scheduler; log holds the audit records
\* written after its orchestrator_start record
InitOrch ==
    /\ InitBase
    /\ errorQueue = EmptyDir
    /\ watcher = "none"
    /\ outage = {}

NextOrch ==
    \/ run_odoo_check_once
    \/ run_facebook_check_once
    \/ run_twitter_check_once
    \/ Tick

SpecOrch == InitOrch /\ [][NextOrch]_vars

----------------------------------------------------------------------------
(* Claims about the scheduled watcher jobs *)

ExternalKinds == {"comment", "mention", "tweet", "overdue_invoice", "new_payment"}

\* C5: in one run of the orchestrator no external identifier is persisted
\* as a Needs_Action file by more than one tick of the watcher jobs.
C5_NoIdentifierPersistedTwice ==
    \A k \in DOMAIN emitted :
        k.type \in ExternalKinds => Cardinality(emitted[k]) <= 1


----------------------------------------------------------------------------
(* Scheduler: the BackgroundScheduler main starts, and its eight jobs.
   What a job does to the vault is the matter of the job actions above; here
   a job is an execution that starts at a tick and ends when its function
   returns or raises, if it ever does. *)

\* add_job(..., max_instances=1), the same for every job
max_instances == 1

\* the job functions whose body is one try/except Exception
FailureBoundary ==
    {"gmail_watcher", "linkedin_poster", "odoo_watcher", "facebook_watcher",
     "twitter_watcher", "error_recovery", "ceo_briefing"}

\* the scheduler submits a due job unless max_instances executions of it run
MayStartAny(j) == TRUE
MayStartAlone(j) == \A k \in Jobs : inFlight[k] = 0
MayStart(j) == inFlight[j] < max_instances

SchedFrame ==
    /\ UNCHANGED <<now, log, needsAction, emitted>>
    /\ UNCHANGED gateVars
    /\ UNCHANGED recVars
    /\ UNCHANGED watchVars

\* the trigger of job j fires: the execution is submitted to the pool, or
\* the run is dropped with a warning when the job's instances are all taken
job_tick(j) ==
    /\ scheduler = "running"
    /\ IF MayStart(j)
       THEN /\ inFlight' = [inFlight EXCEPT ![j] = @ + 1]
            /\ lastEvent' = "started"
       ELSE /\ inFlight' = inFlight
            /\ lastEvent' = "skipped"
    /\ UNCHANGED <<fsThread, fsAlive, scheduler, mainThread>>
    /\ SchedFrame

\* an execution of job j ends: its function returns, having caught what its
\* body raised if it is one try/except, or what it raised reaches the pool's
\* worker, which logs it
job_end(j, raises) ==
    /\ inFlight[j] > 0
    /\ inFlight' = [inFlight EXCEPT ![j] = @ - 1]
    /\ lastEvent' = IF ~raises THEN "returned"
                    ELSE IF j \in FailureBoundary THEN "caught" ELSE "escaped"
    /\ UNCHANGED <<fsThread, fsAlive, scheduler, mainThread>>
    /\ SchedFrame

job_ticks == \E j \in Jobs : job_tick(j)
job_ends == \E j \in Jobs, raises \in BOOLEAN : job_end(j, raises)

InitSched ==
    /\ InitBase
    /\ errorQueue = EmptyDir
    /\ watcher = "none"
    /\ outage = {}

NextSched ==
    \/ job_ticks
    \/ job_ends

SpecSched == InitSched /\ [][NextSched]_vars

----------------------------------------------------------------------------
(* Claims about the scheduler *)

\* C15: no job id ever has more than one execution in flight, and a tick of
\* a job that has an execution in flight starts nothing: the count of the
\* job stays one, and one end of an execution brings it back to zero.
C15_OneInstancePerJob ==
    /\ [](\A j \in Jobs : inFlight[j] <= 1)
    /\ [][\A j \in Jobs :
            (inFlight[j] = 1 /\ lastEvent' \in {"started", "skipped"})
                => inFlight'[j] = 1
         ]_vars
    /\ [][lastEvent' = "skipped" => inFlight' = inFlight]_vars

\* a tick fired while its job was running and was skipped, with another job
\* running at the same time
C15_Witness ==
    /\ lastEvent = "skipped"
    /\ inFlight["odoo_watcher"] = 1
    /\ inFlight["facebook_watcher"] = 1
    /\ inFlight["dashboard_update"] = 0

\* C16: what the target of a job raises is caught inside the job's own
\* failure boundary, never beyond it, and after a job has raised the scheduler
\* is running and the tick of every job can still fire.
C16_RaisedCaughtInJob ==
    /\ lastEvent # "escaped"
    /\ lastEvent \in {"caught", "escaped"}
         => /\ scheduler = "running"
            /\ \A j \in Jobs : ENABLED job_tick(j)

----------------------------------------------------------------------------
(* Supervisor: the filesystem watcher thread, the health monitor loop of
   main and its KeyboardInterrupt handler, next to the scheduler's jobs *)

\* the audit file as the supervisor leaves it, seen through its last MaxLog
\* lines: the loop appends to it for as long as it runs
LastLines(l) == IF Len(l) > MaxLog THEN Tail(l) ELSE l

\* _log_action of the orchestrator
orch_log_action(l, action_type, result) ==
    LastLines(AppendLog(l, "Orchestrator", action_type, result))

\* Thread.is_alive of the watcher thread
is_alive_never(t) == FALSE
is_alive_unless_returned(t) == t # "crashed"
is_alive(t) == t = "alive"

\* the process lives until main has left and the pool's workers are done
ProcessAlive == mainThread # "exited" \/ \E j \in Jobs : inFlight[j] > 0

SupFrame ==
    /\ UNCHANGED <<now, needsAction, emitted>>
    /\ UNCHANGED gateVars
    /\ UNCHANGED recVars
    /\ UNCHANGED watchVars

\* WatcherThread.run: the watcher's run() raises, which run catches and
\* records, or it returns; the thread ends either way
fs_thread_ends(how) ==
    /\ ProcessAlive
    /\ is_alive(fsThread)
    /\ fsThread' = how
    /\ fsAlive' = fsAlive - 1
    /\ UNCHANGED <<log, inFlight, lastEvent, scheduler, mainThread>>
    /\ SupFrame

\* one turn of the health monitor loop, after its sleep
health_check ==
    /\ mainThread = "loop"
    /\ IF ~is_alive(fsThread)
       THEN /\ log' = orch_log_action(log, "watcher_restart", "warning")
            /\ fsThread' = "alive"
            /\ fsAlive' = fsAlive + 1
       ELSE UNCHANGED <<log, fsThread, fsAlive>>
    /\ UNCHANGED <<inFlight, lastEvent, scheduler, mainThread>>
    /\ SupFrame

\* KeyboardInterrupt is raised in the main thread, inside the loop's try
keyboard_interrupt ==
    /\ mainThread = "loop"
    /\ mainThread' = "interrupted"
    /\ UNCHANGED <<log, inFlight, lastEvent, fsThread, fsAlive, scheduler>>
    /\ SupFrame

\* except KeyboardInterrupt: the stop record, scheduler.shutdown(wait=False),
\* and main returns
on_keyboard_interrupt_no_shutdown ==
    /\ mainThread = "interrupted"
    /\ log' = orch_log_action(log, "orchestrator_stop", "success")
    /\ mainThread' = "exited"
    /\ UNCHANGED <<inFlight, lastEvent, fsThread, fsAlive, scheduler>>
    /\ SupFrame
on_keyboard_interrupt ==
    /\ mainThread = "interrupted"
    /\ log' = orch_log_action(log, "orchestrator_stop", "success")
    /\ scheduler' = "stopped"
    /\ mainThread' = "exited"
    /\ UNCHANGED <<inFlight, lastEvent, fsThread, fsAlive>>
    /\ SupFrame

fs_thread_crashes == fs_thread_ends("crashed")
fs_thread_returns == fs_thread_ends("returned")

InitSupervisor == InitSched

NextSupervisor ==
    \/ job_ticks
    \/ job_ends
    \/ fs_thread_crashes
    \/ fs_thread_returns
    \/ health_check
    \/ keyboard_interrupt
    \/ on_keyboard_interrupt

SpecSupervisor == InitSupervisor /\ [][NextSupervisor]_vars

\* the main thread is scheduled: the loop wakes from its sleep and the
\* handler of a raised KeyboardInterrupt runs
SpecSupervisorFair ==
    /\ SpecSupervisor
    /\ WF_vars(health_check)
    /\ WF_vars(on_keyboard_interrupt)

----------------------------------------------------------------------------
(* Claims about the supervisor *)

RestartRecord == LogEntry("Orchestrator", "watcher_restart", "warning")
StopRecord == LogEntry("Orchestrator", "orchestrator_stop", "success")

\* C17: a watcher thread found dead at a health check, crashed or returned,
\* is replaced by a live one in that check, which appends the restart record
\* to the audit log; a restart record is only written by a restart; while the
\* loop runs a health check can always happen, with no cap on restarts; and
\* a dead thread is eventually replaced unless the loop has been interrupted.
C17_DeadWatcherRestarted ==
    /\ [][(~is_alive(fsThread) /\ is_alive(fsThread'))
            => /\ mainThread = "loop"
               /\ log' = LastLines(Append(log, RestartRecord))
         ]_vars
    /\ [][(log' # log /\ log'[Len(log')] = RestartRecord)
            => (fsThread \in {"crashed", "returned"} /\ fsThread' = "alive")
         ]_vars
    /\ [](mainThread = "loop" => ENABLED health_check)
    /\ (fsThread = "crashed") ~> (fsThread = "alive" \/ mainThread # "loop")
    /\ (fsThread = "returned") ~> (fsThread = "alive" \/ mainThread # "loop")

\* the thread was restarted MaxLog times or more, after a crash and after a
\* return, and has died again
C17_Witness ==
    /\ Len(log) = MaxLog
    /\ \A i \in 1..Len(log) : log[i] = RestartRecord
    /\ fsThread = "returned"
    /\ mainThread = "loop"

\* C18: the scheduler stops only in the KeyboardInterrupt handler, which
\* appends the stop record and requests the shutdown without waiting (the
\* executions in flight stay in flight and main leaves); from the shutdown on
\* the scheduler stays stopped and no execution starts; once the loop has been
\* interrupted the watcher thread is never restarted; and an interrupt is
\* always followed by the shutdown.
C18_ShutdownOnInterrupt ==
    /\ [][(scheduler = "running" /\ scheduler' = "stopped")
            => /\ mainThread = "interrupted"
               /\ mainThread' = "exited"
               /\ log' = LastLines(Append(log, StopRecord))
               /\ inFlight' = inFlight
         ]_vars
    /\ [][scheduler = "stopped"
            => /\ scheduler' = "stopped"
               /\ lastEvent' = "started" => lastEvent = "started"
               /\ \A j \in Jobs : inFlight'[j] <= inFlight[j]
         ]_vars
    /\ [][mainThread # "loop"
            => /\ mainThread' # "loop"
               /\ is_alive(fsThread') => is_alive(fsThread)
         ]_vars
    /\ (mainThread = "interrupted") ~> (scheduler = "stopped")

\* after the shutdown: an execution that was in flight has ended, another is
\* still running, and the watcher thread has died and stays dead
C18_Witness ==
    /\ scheduler = "stopped"
    /\ mainThread = "exited"
    /\ log[Len(log)] = StopRecord
    /\ lastEvent = "returned"
    /\ inFlight["ceo_briefing"] = 1
    /\ fsThread = "crashed"

\* C19: while an execution of one job is in flight, for however long, the
\* tick of every job that has none can fire and starts an execution whenever
\* the scheduler is running, the watcher thread can still end and be
\* restarted, and the health check can happen whenever the loop runs; a step
\* of the scheduler never touches the watcher thread or the main thread.
C19_BlockedJobStallsOnlyItself ==
    /\ [](\A j, k \in Jobs :
             (inFlight[j] > 0 /\ inFlight[k] = 0 /\ scheduler = "running")
                 => ENABLED (job_tick(k) /\ inFlight'[k] = 1))
    /\ []((\E j \in Jobs : inFlight[j] > 0)
             => /\ mainThread = "loop" => ENABLED health_check
                /\ fsThread = "alive" => ENABLED fs_thread_crashes
                /\ (mainThread = "loop" /\ fsThread # "alive")
                      => ENABLED (health_check /\ fsThread' = "alive"))
    /\ [][inFlight' # inFlight
            => (fsThread' = fsThread /\ mainThread' = mainThread /\ log' = log)
         ]_vars

\* one execution has been in flight while the watcher thread was restarted
\* MaxLog times or more and another job started
C19_Witness ==
    /\ inFlight["gmail_watcher"] = 1
    /\ inFlight["twitter_watcher"] = 1
    /\ lastEvent = "started"
    /\ Len(log) = MaxLog
    /\ log[Len(log)] = RestartRecord
    /\ fsThread = "alive"
    /\ \A j \in Jobs \ {"gmail_watcher", "twitter_watcher"} : inFlight[j] = 0

\* C32: at every moment at most one WatcherThread instance of the filesystem
\* watcher is running, and it is the one main holds in fs_thread: the health
\* check starts an instance only after the one it holds has ended, however
\* many times the thread has ended and been restarted.
C32_OneWatcherInstance ==
    /\ fsAlive \in {0, 1}
    /\ fsAlive = 1 <=> fsThread = "alive"

\* the thread has ended and been restarted MaxLog times, once after a crash
\* and once after a return at least, and one instance is running
C32_Witness ==
    /\ Len(log) = MaxLog
    /\ \A i \in 1..Len(log) : log[i] = RestartRecord
    /\ fsThread = "alive"
    /\ fsAlive = 1
    /\ mainThread = "loop"
    /\ \A j \in Jobs : inFlight[j] = 0
    /\ lastEvent = "none"

----------------------------------------------------------------------------
(* The audit log under all its writers: the tool servers, the scheduled jobs
   and the supervisor work on one vault and append to one file per day *)

InitAudit == InitRecovery

\* writers of each kind interleave in any order: a tool of an API server, the
\* tools of the error-recovery server, a scheduled job, the health loop and
\* the interrupt handler; the run is followed until the day's file holds
\* MaxLog records
NextAudit ==
    /\ Len(log) < MaxLog
    /\ \/ twitter_call_post_tweet
       \/ call_queue_for_retry
       \/ call_list_error_queue
       \/ run_error_recovery_scan
       \/ fs_thread_crashes
       \/ health_check
       \/ keyboard_interrupt
       \/ on_keyboard_interrupt

SpecAudit == InitAudit /\ [][NextAudit]_vars

----------------------------------------------------------------------------
(* The mutating operations of the three kinds of process: the API servers'
   gated tools, the error-recovery server's tools, the orchestrator's watcher
   jobs. An operation's effect on the audit log does not depend on what the
   other processes do, so a behaviour follows the operations of one kind of
   process, from a vault that may hold a queued item, until the day's file
   holds MaxLog records or more. *)

InitOps == InitRecovery

api_server_ops ==
    /\ recRes.call = 0
    /\ watchRes.call = 0
    /\ \/ odoo_call_record_payment
       \/ facebook_call_post_to_page
       \/ twitter_call_post_tweet

error_recovery_ops ==
    /\ gateRes = NoGateResult
    /\ watchRes.call = 0
    /\ \/ call_queue_for_retry
       \/ call_retry_failed_action
       \/ call_mark_unrecoverable

\* the three watcher jobs persist what their check answered in the same
\* way; the Twitter job stands for them
watcher_job_ops ==
    /\ gateRes = NoGateResult
    /\ recRes.call = 0
    /\ run_twitter_check_once

NextOps ==
    /\ Len(log) < MaxLog
    /\ \/ api_server_ops
       \/ error_recovery_ops
       \/ watcher_job_ops

SpecOps == InitOps /\ [][NextOps]_vars

----------------------------------------------------------------------------
(* Claims about the audit log *)

\* C25: whichever writer takes a step, the records in the audit log before
\* the step are in it after the step, unchanged and at the same positions:
\* the log is only ever extended at its end.
C25_LogOnlyGrows ==
    [][/\ Len(log') >= Len(log)
       /\ SubSeq(log', 1, Len(log)) = log
      ]_vars

\* the log holds MaxLog records of which the first two are of different
\* writers, the orchestrator's among them
C25_Witness ==
    /\ Len(log) = MaxLog
    /\ log[1].actor = "ErrorRecoveryServer"
    /\ log[2] = RestartRecord
    /\ \A i \in 3..Len(log) : log[i].actor = "TwitterAPIServer"
    /\ Cardinality(DOMAIN pendingApproval) + Cardinality(DOMAIN errorQueue) > 0


\* the audit record each successful mutating tool call is to leave
RecoveryRecord ==
    IF recRes'.op = "queue_for_retry"
    THEN LogEntry("ErrorRecoveryServer", "error_queued", "success")
    ELSE IF recRes'.status = "retrying"
    THEN LogEntry("ErrorRecoveryServer", "error_retry", "retrying")
    ELSE LogEntry("ErrorRecoveryServer", "error_unrecoverable", "unrecoverable")
ApprovalRecord ==
    IF gateRes'.op = "record_payment"
    THEN LogEntry("OdooAPIServer", "record_payment", "pending_approval")
    ELSE IF gateRes'.op = "post_to_page"
    THEN LogEntry("FacebookAPIServer", "facebook_post_hitl", "pending_approval")
    ELSE LogEntry("TwitterAPIServer", "twitter_post_hitl", "pending_approval")

\* the candidates the job's tick persisted
PersistedNow == {k \in DOMAIN emitted' : (watchRes.call + 1) \in emitted'[k]}

\* C26: a queue_for_retry, retry_failed_action or mark_unrecoverable call that
\* returns success appends exactly one audit record, of its own kind and
\* outcome, the escalating retry_failed_action call included; a gated
\* record_payment, post_to_page or post_tweet call that returns
\* pending_approval appends exactly one record with that outcome; and a
\* watcher job appends, after the record of its check, exactly one success
\* record per candidate whose action file it wrote.
C26_OneRecordPerMutation ==
    [][/\ \A op \in {"queue_for_retry", "retry_failed_action", "mark_unrecoverable"} :
            (RecCall(op) /\ recRes'.success)
                => OneRecordAppended /\ log'[Len(log')] = RecoveryRecord
       /\ \A op \in {"record_payment", "post_to_page", "post_tweet"} :
            (GateCall(op) /\ gateRes'.status = "pending_approval")
                => OneRecordAppended /\ log'[Len(log')] = ApprovalRecord
       /\ WatchCall("twitter")
            => /\ Len(log') = Len(log) + 1 + Cardinality(PersistedNow)
               /\ SubSeq(log', 1, Len(log)) = log
               /\ log'[Len(log) + 1].action_type = "twitter_check"
               /\ \A i \in (Len(log) + 2)..Len(log') :
                      log'[i] = LogEntry("TwitterWatcher", "twitter_action_file", "success")
      ]_vars

\* a retry_failed_action call on an item found with MAX_RETRIES retries has
\* escalated it, after a retry of an item queued in this run
C26_Witness ==
    /\ recRes.op = "retry_failed_action"
    /\ recRes.success
    /\ recRes.status = "unrecoverable"
    /\ Len(log) = 2
    /\ log[1] = LogEntry("ErrorRecoveryServer", "error_queued", "success")
    /\ log[2] = LogEntry("ErrorRecoveryServer", "error_unrecoverable", "unrecoverable")
    /\ Cardinality(DOMAIN done) = 1


----------------------------------------------------------------------------
(* A watcher process that persists what it finds: each round of the polling
   loop asks the running instance for updates and hands every candidate it
   returned to create_action_file, whose write may fail. *)

PollFrame ==
    /\ UNCHANGED <<now, today, watcher, outage>>
    /\ UNCHANGED gateVars
    /\ UNCHANGED recVars
    /\ UNCHANGED schedVars

facebook_poll ==
    /\ watcher = "facebook"
    /\ watchRes.call < MaxChecks
    /\ \E comments \in Answers("comments", Windows(MaxWindow)) :
       \E mentions \in Answers("tagged", NextWindows(comments, TRUE)) :
        LET r == facebook_check_for_updates(seenComments, seenMentions,
                                            comments, mentions)
        IN  /\ seenComments' = r.seenC
            /\ seenMentions' = r.seenM
            /\ RunCheckOnce("facebook",
                            Listed("comment", comments) \cup Listed("mention", mentions),
                            r, "FacebookWatcher", "facebook_check")
    /\ UNCHANGED <<seenTweets, seenInvoices, lastPaymentCheck>>
    /\ PollFrame

twitter_poll ==
    /\ watcher = "twitter"
    /\ watchRes.call < MaxChecks
    /\ \E mentions \in Answers("mentions", Windows(MaxWindow)) :
        LET r == twitter_check_for_updates(seenTweets, mentions)
        IN  /\ seenTweets' = r.seenT
            /\ RunCheckOnce("twitter", Listed("tweet", mentions), r,
                            "TwitterWatcher", "twitter_check")
    /\ UNCHANGED <<seenComments, seenMentions, seenInvoices, lastPaymentCheck>>
    /\ PollFrame

\* the cursor is the day of construction and the day does not change here,
\* so the round asks for no payments
odoo_poll ==
    /\ watcher = "odoo"
    /\ watchRes.call < MaxChecks
    /\ \E invoices \in Answers("invoices", Windows(MaxWindow)), cash \in Balances :
        LET low == check_balance_alert("authenticate" \notin outage,
                                       "accounts" \notin outage, cash)
            r == odoo_check_for_updates(seenInvoices, lastPaymentCheck, today,
                                        invoices, <<>>, low)
        IN  /\ seenInvoices' = r.seenI
            /\ lastPaymentCheck' = r.cursor
            /\ RunCheckOnce("odoo", Listed("overdue_invoice", invoices), r,
                            "OdooWatcher", "odoo_check")
    /\ UNCHANGED <<seenComments, seenMentions, seenTweets>>
    /\ PollFrame

\* the Facebook watcher runs while the tagged-posts query is failing, so its
\* rounds are shown comments only
InitPoll ==
    /\ InitBase
    /\ errorQueue = EmptyDir
    /\ watcher \in Watchers
    /\ outage = IF watcher = "facebook" THEN {"tagged"} ELSE {}

NextPoll ==
    \/ facebook_poll
    \/ twitter_poll
    \/ odoo_poll

SpecPoll == InitPoll /\ [][NextPoll]_vars

----------------------------------------------------------------------------
(* Claims about the workflow directories *)

\* C27: every create_action_file call of a watcher job writes a path that no
\* earlier create_action_file call of the run has written, so no Needs_Action
\* file of one candidate is replaced by another call.
C27_ActionFilePathsFresh ==
    [][\A w \in Watchers : WatchCall(w)
          => \A k \in PersistedNow : action_file_name(k, now) \notin DOMAIN needsAction]_vars

\* the seen-set a kind of candidate is kept in, after the round
SeenAfter(type) ==
    IF type = "comment" THEN seenComments'
    ELSE IF type = "mention" THEN seenMentions'
    ELSE IF type = "tweet" THEN seenTweets'
    ELSE seenInvoices'
SeenKinds == {"comment", "mention", "tweet", "overdue_invoice"}

\* the candidates the round returned whose action file was not written
NotPersisted == Range(watchRes'.items) \ PersistedNow

\* C28: in a watcher that persists what it finds no identifier ever leaves a
\* seen-set; every identifier a round returned is in its seen-set after the
\* round, the ones whose create_action_file failed included; and no round
\* returns an identifier that was in the seen-set when it began.
C28_SeenKeptWhenPersistFails ==
    [][/\ seenComments \subseteq seenComments'
       /\ seenMentions \subseteq seenMentions'
       /\ seenTweets \subseteq seenTweets'
       /\ seenInvoices \subseteq seenInvoices'
       /\ \A w \in Watchers : WatchCall(w) =>
            /\ \A i \in NotPersisted : i.type \in SeenKinds => i.id \in SeenAfter(i.type)
            /\ Returned("comment") \cap seenComments = {}
            /\ Returned("mention") \cap seenMentions = {}
            /\ Returned("tweet") \cap seenTweets = {}
            /\ Returned("overdue_invoice") \cap seenInvoices = {}
      ]_vars

\* the first round returned invoice 1 and failed to write its action file:
\* none exists and none was logged; the second round is shown invoices 1 and
\* 2, returns only invoice 2 and persists it
C28_Witness ==
    /\ watchRes.call = 2
    /\ watchRes.op = "odoo"
    /\ watchRes.listed = {Item("overdue_invoice", 1), Item("overdue_invoice", 2)}
    /\ watchRes.items = <<Item("overdue_invoice", 2)>>
    /\ seenInvoices = {1, 2}
    /\ DOMAIN emitted = {Item("overdue_invoice", 2)}
    /\ Cardinality(DOMAIN needsAction) = 1
    /\ Len(log) = 3
    /\ log[1].action_type = "odoo_check"
    /\ log[2].action_type = "odoo_check"
    /\ log[3] = LogEntry("OdooWatcher", "odoo_action_file", "success")

\* the approval file a gated call of this second is to write
HitlName ==
    IF gateRes'.op = "record_payment" THEN odoo_hitl_name("PAYMENT", now)
    ELSE IF gateRes'.op = "post_to_page" THEN facebook_hitl_name(now)
    ELSE twitter_hitl_name(now)

\* after the call Pending_Approval holds the call's request under that name
RequestStored ==
    /\ HitlName \in DOMAIN pendingApproval'
    /\ pendingApproval'[HitlName].data = gateRes'.arg
    /\ pendingApproval'[HitlName].status = "pending"

\* after the call Error_Queue holds a freshly queued item under the name the
\* call answers
ItemStored ==
    /\ recRes'.ref \in DOMAIN errorQueue'
    /\ StoredStatus(errorQueue'[recRes'.ref]) = "queued"
    /\ StoredRetryCount(errorQueue'[recRes'.ref]) = 0

\* C29: a gated record_payment, post_to_page or post_tweet call that leaves
\* its ApprovalRequest unwritten, and a queue_for_retry call that leaves its
\* ErrorQueueItem unwritten, raises or answers success false; it never
\* answers success true or status "pending_approval".
C29_WriteFailureNotSuccess ==
    [][/\ \A op \in {"record_payment", "post_to_page", "post_tweet"} :
            (GateCall(op) /\ gateRes'.path = "approval" /\ ~RequestStored)
                => /\ ~gateRes'.success
                   /\ gateRes'.status \in {"raised", "error"}
       /\ (RecCall("queue_for_retry") /\ ~ItemStored)
                => /\ ~recRes'.success
                   /\ recRes'.status = "raised"
      ]_vars

\* post_to_page failed to write its request and answered an error, then a
\* gated record_payment failed to write and raised: Pending_Approval is empty
C29_Witness ==
    /\ gateRes.op = "record_payment"
    /\ gateRes.path = "approval"
    /\ gateRes.status = "raised"
    /\ ~gateRes.success
    /\ pendingApproval = EmptyDir
    /\ log = <<LogEntry("FacebookAPIServer", "facebook_post_hitl", "error")>>

\* the names a step adds to a directory, and the names it takes out of it
Created(dir, dir2) == DOMAIN dir2 \ DOMAIN dir
Removed(dir, dir2) == DOMAIN dir \ DOMAIN dir2

----------------------------------------------------------------------------
(* The backoff helper of the error-recovery server: _retry_with_backoff
   calls the function it is given, under
   @retry(stop=stop_after_attempt(MAX_RETRIES),
          wait=wait_exponential(multiplier=2, min=2, max=16)).
   The decorator calls the function, returns what it returns, and when it
   raises either sleeps and calls again or, once the stop condition holds,
   raises RetryError. *)

wait_multiplier == 2
wait_min == 2
wait_max == 16

\* what one call of the wrapped function comes to: a value, or an exception
Returns(value) == [raises |-> "none", value |-> value]
Raises(exception) == [raises |-> exception, value |-> 0]
Exceptions == {Raises("ConnectionError"), Raises("TimeoutError")}
Outcomes == {Returns(v) : v \in Payloads} \cup Exceptions

RECURSIVE Pow2(_)
Pow2(n) == IF n = 0 THEN 1 ELSE 2 * Pow2(n - 1)
Min(a, b) == IF a < b THEN a ELSE b
Max(a, b) == IF a > b THEN a ELSE b

\* stop_after_attempt(n): stop once attempt_number >= n
stop_after_attempt_late(n, attempt_number) == attempt_number > n
stop_after_attempt(n, attempt_number) == attempt_number >= n

\* wait_exponential: multiplier * 2 ** (attempt_number - 1), kept in [min, max]
wait_exponential(attempt_number) ==
    Max(wait_min, Min(wait_multiplier * Pow2(attempt_number - 1), wait_max))

BackoffFrame ==
    /\ UNCHANGED <<now, log, needsAction, emitted, errorQueue, done, recRes, retryCalls>>
    /\ UNCHANGED gateVars
    /\ UNCHANGED watchVars
    /\ UNCHANGED schedVars

\* _retry_with_backoff(fn) is called
retry_with_backoff_call ==
    /\ backoff.state \in {"idle", "returned", "retry_error"}
    /\ backoff.call < MaxCalls
    /\ backoff' = [call |-> backoff.call + 1, attempt_number |-> 0, outcomes |-> <<>>,
                   slept |-> <<>>, state |-> "attempt", result |-> 0]
    /\ BackoffFrame

\* one attempt: the call of the wrapped function returns or raises
backoff_attempt ==
    /\ backoff.state = "attempt"
    /\ \E outcome \in Outcomes :
        LET attempt_number == backoff.attempt_number + 1
        IN  backoff' = [backoff EXCEPT
                !.attempt_number = attempt_number,
                !.outcomes = Append(@, outcome),
                !.result = outcome.value,
                !.state = IF outcome \notin Exceptions THEN "returned"
                          ELSE IF stop_after_attempt(MAX_RETRIES, attempt_number)
                               THEN "retry_error"
                               ELSE "sleep"]
    /\ BackoffFrame

\* the sleep between a failed attempt and the next one
backoff_sleep ==
    /\ backoff.state = "sleep"
    /\ backoff' = [backoff EXCEPT
            !.slept = Append(@, wait_exponential(backoff.attempt_number)),
            !.state = "attempt"]
    /\ BackoffFrame

InitBackoff ==
    /\ InitBase
    /\ errorQueue = EmptyDir
    /\ watcher = "none"
    /\ outage = {}

NextBackoff ==
    \/ retry_with_backoff_call
    \/ backoff_attempt
    \/ backoff_sleep

SpecBackoff == InitBackoff /\ [][NextBackoff]_vars

----------------------------------------------------------------------------
(* Claims about the backoff helper *)

\* C31: a _retry_with_backoff call makes at most 3 attempts; when it has
\* returned, its result is the value of its last attempt and every attempt
\* before that one raised; when it has ended in RetryError it made 3
\* attempts and all of them raised; it sleeps once between two attempts, each
\* sleep is between 2 and 16 and twice the one before.
C31_BackoffBounded ==
    /\ backoff.attempt_number <= 3
    /\ Len(backoff.outcomes) = backoff.attempt_number
    /\ \A i \in 1..(Len(backoff.outcomes) - 1) : backoff.outcomes[i] \in Exceptions
    /\ backoff.state = "returned" =>
          /\ backoff.outcomes[Len(backoff.outcomes)] \notin Exceptions
          /\ backoff.result = backoff.outcomes[Len(backoff.outcomes)].value
          /\ backoff.result \in Payloads
    /\ backoff.state = "retry_error" =>
          /\ backoff.attempt_number = 3
          /\ backoff.outcomes[3] \in Exceptions
    /\ backoff.state \in {"returned", "retry_error", "sleep"} =>
          Len(backoff.slept) = backoff.attempt_number - 1
    /\ backoff.state = "attempt" => Len(backoff.slept) = backoff.attempt_number
    /\ \A i \in 1..Len(backoff.slept) : 2 <= backoff.slept[i] /\ backoff.slept[i] <= 16
    /\ \A i \in 1..(Len(backoff.slept) - 1) : backoff.slept[i + 1] = 2 * backoff.slept[i]

\* the second call of the helper failed three times and ended in RetryError
\* after sleeping 2 and then 4
C31_Witness ==
    /\ backoff.call = 2
    /\ backoff.state = "retry_error"
    /\ backoff.attempt_number = 3
    /\ backoff.slept = <<2, 4>>
    /\ backoff.outcomes = <<Raises("TimeoutError"), Raises("ConnectionError"),
                          Raises("TimeoutError")>>


----------------------------------------------------------------------------
(* Further claims about the watchers *)

\* C33: every identifier a check_for_updates call adds to a seen-set is among
\* the candidates that call returns, also when the check is cut short by a
\* malformed upstream entry.
C33_SeenOnlyIfReturned ==
    [][/\ WatchCall("facebook") =>
            /\ (seenComments' \ seenComments) \subseteq Returned("comment")
            /\ (seenMentions' \ seenMentions) \subseteq Returned("mention")
       /\ WatchCall("twitter") => (seenTweets' \ seenTweets) \subseteq Returned("tweet")
       /\ WatchCall("odoo") =>
            (seenInvoices' \ seenInvoices) \subseteq Returned("overdue_invoice")
      ]_vars


\* C35: an Odoo check whose payments query for the cursor day fails, the
\* query itself or the authentication before it, leaves the payment cursor
\* where it was.
C35_CursorKeptOnFailedQuery ==
    [][(/\ WatchCall("odoo")
        /\ lastPaymentCheck # today
        /\ {"payments", "authenticate"} \cap outage # {})
          => lastPaymentCheck' = lastPaymentCheck
      ]_vars

\* C36: the candidates one check_for_updates call returns are pairwise
\* different, whatever repetitions the upstream answers hold.
C36_NoDuplicateInOneCheck ==
    [][\A w \in Watchers : WatchCall(w) =>
          \A i, j \in DOMAIN watchRes'.items :
              i # j => watchRes'.items[i] # watchRes'.items[j]
      ]_vars

\* C37: in a tick of a watcher job in which the write of one candidate's
\* action file fails, every other candidate the check returned is persisted:
\* at most one returned candidate is left without its action file.
C37_OthersPersistedAfterFailure ==
    [][\A w \in Watchers : WatchCall(w) =>
          Cardinality(Range(watchRes'.items) \ PersistedNow) <= 1
      ]_vars

----------------------------------------------------------------------------
(* Further claims about error recovery *)

\* the items that are or were in Error_Queue: those in it and those moved
\* to Done
QueuedItems == DOMAIN errorQueue \cup {Original(n) : n \in DOMAIN done}

\* C34: every file the error-recovery tools leave in Needs_Action is the
\* retry copy RETRY_<name> of one item <name>, so an item has at most one
\* retry copy there, however many times retry_failed_action was called on it.
C34_OneRetryCopyPerItem ==
    /\ \A n \in DOMAIN needsAction :
          /\ n.prefix = "RETRY_"
          /\ Original(n) \in QueuedItems
    /\ Cardinality(DOMAIN needsAction) <= Cardinality(QueuedItems)

\* an item queued in this run was retried twice and has one copy
C34_Witness ==
    /\ recRes.op = "retry_failed_action"
    /\ recRes.success
    /\ recRes.status = "retrying"
    /\ recRes.ref \in DOMAIN retryCalls
    /\ retryCalls[recRes.ref] = 2
    /\ DOMAIN needsAction = {[recRes.ref EXCEPT !.prefix = "RETRY_"]}
    /\ DOMAIN errorQueue = {recRes.ref}

====
